---- MODULE Spec2Model ----
(***************************************************************************)
(* Model of kiwi/bootloader/config/isolinux.py: BootLoaderConfigIsoLinux.  *)
(* The object is created by post_init, renders isolinux.cfg/isolinux.msg   *)
(* in memory from templates, stages the syslinux loader files and the boot *)
(* theme into <root>/boot/<arch>/loader and writes the rendered texts.     *)
(***************************************************************************)
EXTENDS Integers, Sequences, FiniteSets, TLC

VARIABLES
    machine,      \* platform.machine() of the build host
    xml_state,    \* the build description read by post_init
    defaults,     \* Defaults: the default volume ids
    isolinux,     \* the template provider: getter name -> template body
    self,         \* the fields of the object set so far (field name -> value)
    phase,        \* "new", "ready" (post_init returned), "failed" (post_init raised)
    lookup,       \* files below lookup_path: syslinux dirs, boot/memtest*, theme
    loader_data,  \* <lookup_path>/image/loader/ : [exists, files]
    iso_boot,     \* <root>/boot/<arch>/loader   : [exists, files]
    env_changes,  \* how often the files below lookup_path were changed from outside
    last          \* the most recent call: its name, inputs, outcome, state before

vars == <<machine, xml_state, defaults, isolinux, self, phase, lookup, loader_data, iso_boot, env_changes, last>>

---------------------------------------------------------------------------
(* Python values *)

\* None and an optional value: None is <<>>, a present value v is <<v>>
None == <<>>
Some(v) == <<v>>

\* truthiness of an optional string: None and '' are both false
Truthy(o) == o # None /\ o[1] # ""

\* x or y
Or(o, d) == IF Truthy(o) THEN o[1] ELSE d

\* sep.join(seq) for a sequence of strings
RECURSIVE Join(_, _)
Join(seq, sep) ==
    IF seq = <<>> THEN ""
    ELSE IF Len(seq) = 1 THEN seq[1]
    ELSE seq[1] \o sep \o Join(Tail(seq), sep)

\* an empty directory listing (file name -> content)
NoFiles == [n \in {} |-> ""]

\* a directory that does not exist
NoDir == [exists |-> FALSE, files |-> NoFiles]

\* a directory after files were copied over it: same names are overwritten
Overlay(new, old) == new @@ old

---------------------------------------------------------------------------
(* Collaborators of the class: static defaults and base class getters *)

\* Defaults.get_failsafe_kernel_options()
FailsafeKernelOptions == "ide=nodma apm=off noresume edd=off nomodeset 3"

\* Defaults.get_default_live_iso_type()
DefaultLiveIsoType == "overlay"

\* Defaults.get_live_iso_persistent_boot_options(filesystem)
PersistentBootOptions(filesystem) ==
    <<"rd.live.overlay.persistent">>
        \o (IF Truthy(filesystem)
            THEN <<"rd.live.overlay.cowfs=" \o filesystem[1]>> ELSE <<>>)

\* BootLoaderConfigBase.get_menu_entry_title(plain=True)
MenuEntryTitle == xml_state.displayname

\* BootLoaderConfigBase.get_menu_entry_install_title()
MenuEntryInstallTitle == xml_state.displayname

\* BootLoaderConfigBase.get_install_image_boot_default('isolinux')
InstallImageBootDefault ==
    IF xml_state.installboot = "install" THEN "Install_" \o xml_state.displayname
    ELSE IF xml_state.installboot = "failsafe-install"
         THEN "Failsafe_--_Install_" \o xml_state.displayname
    ELSE "Boot_from_Hard_Disk"

\* BootLoaderConfigBase.get_boot_theme()
BootTheme == xml_state.boot_theme

---------------------------------------------------------------------------
(* post_init *)

\* the architecture tag, had the unsupported case been left out
ArchTagUnchecked(m) ==
    IF m = "i686" \/ m = "i586" THEN Some("ix86") ELSE Some(m)

\* the architecture tag for a host machine identifier, None if unsupported
ArchTag(m) ==
    IF m = "x86_64" THEN Some(m)
    ELSE IF m = "i686" \/ m = "i586" THEN Some("ix86")
    ELSE None

\* self.install_volid
InstallVolid == Or(xml_state.volid, defaults.install_volume_id)

\* self.volume_id
VolumeId == Or(xml_state.volid, defaults.volume_id)

\* the label, had the install root option named the live volume id
LiveRootLabel == VolumeId

\* the label the install root option names
InstallRootLabel == InstallVolid

\* self.install_boot_options
InstallBootOptions ==
    <<"loglevel=0">>
        \o (IF xml_state.initrd_system = "dracut"
            THEN <<"root=install:CDLABEL=" \o InstallRootLabel>> ELSE <<>>)

\* self.live_boot_options
LiveBootOptions ==
    <<"root=live:CDLABEL=" \o VolumeId, "rd.live.image">>
        \o (IF xml_state.hybridpersistent
            THEN PersistentBootOptions(xml_state.hybridpersistent_filesystem)
            ELSE <<>>)

\* self.multiboot
Multiboot == IF xml_state.xen_server THEN TRUE ELSE FALSE

\* the fields assigned before the architecture check
FieldsBeforeArchCheck == [custom_args |-> xml_state.custom_args]

\* all fields of a constructed object
FieldsAfterInit ==
    [custom_args          |-> xml_state.custom_args,
     arch                 |-> ArchTag(machine)[1],
     install_volid        |-> InstallVolid,
     volume_id            |-> VolumeId,
     live_type            |-> Or(xml_state.flags, DefaultLiveIsoType),
     live_boot_options    |-> LiveBootOptions,
     install_boot_options |-> InstallBootOptions,
     terminal             |-> xml_state.bootloader_console,
     gfxmode              |-> xml_state.gfxmode,
     timeout              |-> xml_state.boot_timeout_seconds * 10,
     cmdline              |-> xml_state.cmdline,
     cmdline_failsafe     |-> Join(<<xml_state.cmdline, FailsafeKernelOptions>>, " "),
     failsafe_boot        |-> xml_state.failsafe_boot,
     mediacheck_boot      |-> xml_state.mediacheck,
     multiboot            |-> Multiboot,
     config               |-> None,
     config_message       |-> None]

post_init ==
    /\ phase = "new"
    /\ IF ArchTag(machine) = None
       THEN /\ self' = FieldsBeforeArchCheck
            /\ phase' = "failed"
            /\ last' = [op |-> "post_init",
                        raised |-> "KiwiBootLoaderIsoLinuxPlatformError"]
       ELSE /\ self' = FieldsAfterInit
            /\ phase' = "ready"
            /\ last' = [op |-> "post_init", raised |-> "no"]
    /\ UNCHANGED <<machine, xml_state, defaults, isolinux, lookup, loader_data, iso_boot,
                   env_changes>>

---------------------------------------------------------------------------
(* Templates: string.Template bodies and the BootLoaderTemplateIsoLinux     *)
(* provider.  A body is a sequence of literal parts and ${name} parts.      *)

Lit(s) == [kind |-> "lit", s |-> s]
Var(n) == [kind |-> "var", s |-> n]

\* str(value) of a parameter
Str(name, value) == IF name = "boot_timeout" THEN ToString(value) ELSE value

\* Template.substitute raises KeyError for a placeholder the map lacks
CanSubstitute(template, parameters) ==
    \A i \in DOMAIN template :
        template[i].kind = "var" => template[i].s \in DOMAIN parameters

\* Template.substitute(parameters): the text with every placeholder replaced
Substitute(template, parameters) ==
    Join([i \in DOMAIN template |->
            IF template[i].kind = "lit" THEN template[i].s
            ELSE Str(template[i].s, parameters[template[i].s])], "")

\* the body a getter of the provider returns; the theme variant starts with
\* the graphical ui line
GetTemplate(getter, theme) ==
    IF theme /\ isolinux[getter] # <<>>
    THEN <<Lit("ui gfxboot bootlogo isolinux.msg ")>> \o isolinux[getter]
    ELSE isolinux[getter]

---------------------------------------------------------------------------
(* _get_iso_boot_path, _have_theme *)

\* the theme flag, had it been taken from the configured boot theme
ThemeConfigured == Truthy(BootTheme)

\* os.path.exists(self._get_iso_boot_path() + '/bootlogo')
_have_theme == iso_boot.exists /\ "bootlogo" \in DOMAIN iso_boot.files

---------------------------------------------------------------------------
(* setup_install_image_config, setup_live_image_config *)

\* the parameter map, had the hypervisor been added in both branches
WithHypervisorAlways(parameters, hypervisor) ==
    ("hypervisor" :> hypervisor) @@ parameters

\* parameters['hypervisor'] = hypervisor, in the multiboot branch only
WithHypervisor(parameters, hypervisor) ==
    IF self.multiboot
    THEN ("hypervisor" :> hypervisor) @@ parameters
    ELSE parameters

\* the parameter map of setup_install_image_config
InstallParameters(hypervisor, kernel, initrd) ==
    WithHypervisor(
        [default_boot          |-> InstallImageBootDefault,
         kernel_file           |-> kernel,
         initrd_file           |-> initrd,
         boot_options          |-> Join(<<self.cmdline>> \o self.install_boot_options, " "),
         failsafe_boot_options |-> Join(<<self.cmdline_failsafe>> \o self.install_boot_options, " "),
         gfxmode               |-> self.gfxmode,
         boot_timeout          |-> self.timeout,
         title                 |-> MenuEntryInstallTitle],
        hypervisor)

\* the parameter map of setup_live_image_config
LiveParameters(hypervisor, kernel, initrd) ==
    WithHypervisor(
        [default_boot          |-> MenuEntryTitle,
         kernel_file           |-> kernel,
         initrd_file           |-> initrd,
         boot_options          |-> Join(<<self.cmdline>> \o self.live_boot_options, " "),
         failsafe_boot_options |-> Join(<<self.cmdline_failsafe>> \o self.live_boot_options, " "),
         gfxmode               |-> self.gfxmode,
         boot_timeout          |-> self.timeout,
         title                 |-> MenuEntryTitle],
        hypervisor)

\* the template getter called and the flags handed to it
InstallSelection ==
    [getter     |-> IF self.multiboot THEN "get_multiboot_install_template"
                    ELSE "get_install_template",
     failsafe   |-> self.failsafe_boot,
     theme      |-> _have_theme,
     terminal   |-> self.terminal,
     mediacheck |-> None]

LiveSelection ==
    [getter     |-> IF self.multiboot THEN "get_multiboot_template"
                    ELSE "get_template",
     failsafe   |-> self.failsafe_boot,
     theme      |-> _have_theme,
     terminal   |-> self.terminal,
     mediacheck |-> Some(self.mediacheck_boot)]

\* the try block: config is assigned as soon as the main template is
\* substituted, config_message after the message template is substituted
AfterSubstitution(template, message_template, parameters) ==
    IF ~CanSubstitute(template, parameters) THEN self
    ELSE IF ~CanSubstitute(message_template, parameters)
    THEN [self EXCEPT !.config = Some(Substitute(template, parameters))]
    ELSE [self EXCEPT !.config = Some(Substitute(template, parameters)),
                      !.config_message = Some(Substitute(message_template, parameters))]

\* the except clause: any substitution error is raised as KiwiTemplateError
SubstitutionError(template, message_template, parameters) ==
    IF CanSubstitute(template, parameters) /\ CanSubstitute(message_template, parameters)
    THEN "no" ELSE "KiwiTemplateError"

Render(op, selection, message_getter, parameters) ==
    LET template == GetTemplate(selection.getter, selection.theme)
        message_template == GetTemplate(message_getter, FALSE)
    IN  /\ phase = "ready"
        /\ self' = AfterSubstitution(template, message_template, parameters)
        /\ last' = [op |-> op,
                    raised |-> SubstitutionError(template, message_template, parameters),
                    main_ok |-> CanSubstitute(template, parameters),
                    message_ok |-> CanSubstitute(message_template, parameters),
                    template |-> selection,
                    parameters |-> parameters,
                    main_text |-> IF CanSubstitute(template, parameters)
                                  THEN Some(Substitute(template, parameters)) ELSE None,
                    before |-> [config |-> self.config,
                                config_message |-> self.config_message]]
        /\ UNCHANGED <<machine, xml_state, defaults, isolinux, phase, lookup,
                       loader_data, iso_boot, env_changes>>

\* the values the callers pass for hypervisor, kernel and initrd
HypervisorNames == {"xen.gz"}
KernelNames == {"linux"}
InitrdNames == {"initrd"}

setup_install_image_config ==
    \E hypervisor \in HypervisorNames, kernel \in KernelNames, initrd \in InitrdNames :
        Render("setup_install_image_config", InstallSelection,
               "get_install_message_template",
               InstallParameters(hypervisor, kernel, initrd))

setup_live_image_config ==
    \E hypervisor \in HypervisorNames, kernel \in KernelNames, initrd \in InitrdNames :
        Render("setup_live_image_config", LiveSelection,
               "get_message_template",
               LiveParameters(hypervisor, kernel, initrd))

---------------------------------------------------------------------------
(* write *)

\* if self.config: Path.create(config_dir); write isolinux.cfg
AfterConfigWrite(dir) ==
    IF Truthy(self.config)
    THEN [exists |-> TRUE,
          files |-> Overlay("isolinux.cfg" :> self.config[1], dir.files)]
    ELSE dir

\* whether the message file is opened for writing
MessageWritten == Truthy(self.config_message)

\* if self.config_message: write isolinux.msg; open() fails in a missing directory
AfterMessageWrite(dir) ==
    IF MessageWritten /\ dir.exists
    THEN [dir EXCEPT !.files = Overlay("isolinux.msg" :> self.config_message[1], dir.files)]
    ELSE dir

write ==
    /\ phase = "ready"
    /\ iso_boot' = AfterMessageWrite(AfterConfigWrite(iso_boot))
    /\ last' = [op |-> "write",
                raised |-> IF MessageWritten /\ ~AfterConfigWrite(iso_boot).exists
                           THEN "FileNotFoundError" ELSE "no",
                before |-> iso_boot]
    /\ UNCHANGED <<machine, xml_state, defaults, isolinux, self, phase, lookup, loader_data,
                   env_changes>>

---------------------------------------------------------------------------
(* _copy_loader_data_to_boot_directory *)

syslinux_file_names ==
    <<"isolinux.bin", "ldlinux.c32", "libcom32.c32", "libutil.c32", "gfxboot.c32",
      "gfxboot.com", "menu.c32", "chain.c32", "mboot.c32">>

syslinux_dirs == <<"/usr/share/syslinux/", "/usr/lib/syslinux/modules/bios/">>

\* what is staged already, had the directory not been wiped
KeptLoaderData == loader_data.files

\* Path.wipe(loader_data); Path.create(loader_data)
WipedLoaderData == NoFiles

\* the inner loop, had it stopped at the first directory that holds the file
RECURSIVE FirstMatchCopy(_, _, _)
FirstMatchCopy(staged, name, dirs) ==
    IF dirs = <<>> THEN staged
    ELSE IF name \in DOMAIN lookup.syslinux[Head(dirs)]
    THEN Overlay(name :> lookup.syslinux[Head(dirs)][name], staged)
    ELSE FirstMatchCopy(staged, name, Tail(dirs))

\* the inner loop: every candidate directory in order, each existing file is
\* copied over what is staged under that name
RECURSIVE CopyFromDirs(_, _, _)
CopyFromDirs(staged, name, dirs) ==
    IF dirs = <<>> THEN staged
    ELSE CopyFromDirs(
            IF name \in DOMAIN lookup.syslinux[Head(dirs)]
            THEN Overlay(name :> lookup.syslinux[Head(dirs)][name], staged)
            ELSE staged,
            name, Tail(dirs))

\* the outer loop over the required file names
RECURSIVE CopyLoaderFiles(_, _)
CopyLoaderFiles(staged, names) ==
    IF names = <<>> THEN staged
    ELSE CopyLoaderFiles(CopyFromDirs(staged, Head(names), syslinux_dirs), Tail(names))

\* a run so far: the staged files, the steps taken, the step that raised
Started(files) ==
    [files |-> files, steps |-> <<"wipe", "copy_loader_files">>, raised |-> "no"]

\* the memtest copy, had it been run with raise_on_error=True
MemtestStepRaising(r, fails) ==
    IF lookup.memtest # None /\ "memtest" \notin fails
    THEN [r EXCEPT !.steps = Append(@, "memtest"),
                   !.files = Overlay("memtest" :> lookup.memtest[1], @)]
    ELSE [r EXCEPT !.steps = Append(@, "memtest"), !.raised = "memtest"]

\* Command.run(cp <lookup>/boot/memtest* <loader_data>/memtest, raise_on_error=False)
MemtestStep(r, fails) ==
    [r EXCEPT !.steps = Append(@, "memtest"),
              !.files = IF lookup.memtest # None /\ "memtest" \notin fails
                        THEN Overlay("memtest" :> lookup.memtest[1], @) ELSE @]

\* whether the theme's cdrom directory is copied
HaveThemeCdrom == Truthy(BootTheme) /\ "gfxboot.cfg" \in DOMAIN lookup.theme_cdrom

\* whether the theme's bootloader message is copied
HaveThemeMessage == Truthy(BootTheme) /\ lookup.theme_message # None

\* Command.run(cp <theme>/cdrom/* <loader_data>)
ThemeCdromStep(r, fails) ==
    IF r.raised # "no" \/ ~HaveThemeCdrom THEN r
    ELSE IF "theme_cdrom" \in fails
    THEN [r EXCEPT !.steps = Append(@, "theme_cdrom"), !.raised = "theme_cdrom"]
    ELSE [r EXCEPT !.steps = Append(@, "theme_cdrom"),
                   !.files = Overlay(lookup.theme_cdrom, @)]

\* Command.run(gfxboot --config-file <loader_data>/gfxboot.cfg --change-config ...)
GfxbootStep(r, fails) ==
    IF r.raised # "no" \/ ~HaveThemeCdrom THEN r
    ELSE IF "gfxboot" \in fails
    THEN [r EXCEPT !.steps = Append(@, "gfxboot"), !.raised = "gfxboot"]
    ELSE [r EXCEPT !.steps = Append(@, "gfxboot"),
                   !.files = Overlay("gfxboot.cfg" :> (@["gfxboot.cfg"] \o " install::autodown=0"), @)]

\* Command.run(cp <theme>/bootloader/message <loader_data>)
ThemeMessageStep(r, fails) ==
    IF r.raised # "no" \/ ~HaveThemeMessage THEN r
    ELSE IF "theme_message" \in fails
    THEN [r EXCEPT !.steps = Append(@, "theme_message"), !.raised = "theme_message"]
    ELSE [r EXCEPT !.steps = Append(@, "theme_message"),
                   !.files = Overlay("message" :> lookup.theme_message[1], @)]

\* the options, had the sync been asked to mirror deletions
SyncOptionsWithDelete == {"-z", "-a", "--delete"}

\* the options handed to DataSync.sync_data
SyncOptions == {"-z", "-a"}

\* DataSync.sync_data: rsync <options> <source>/ <target>
SyncData(options, source, target) ==
    IF "--delete" \in options THEN source ELSE Overlay(source, target)

\* Path.create(iso boot path); DataSync(loader_data, iso boot path).sync_data(...)
SyncStep(r, fails) ==
    IF r.raised # "no" THEN r
    ELSE IF "sync" \in fails
    THEN [r EXCEPT !.steps = @ \o <<"create_boot_path", "sync">>, !.raised = "sync"]
    ELSE [r EXCEPT !.steps = @ \o <<"create_boot_path", "sync">>]

\* the run up to the sync
Staged(fails) ==
    ThemeMessageStep(
        GfxbootStep(
            ThemeCdromStep(
                MemtestStep(
                    Started(CopyLoaderFiles(WipedLoaderData, syslinux_file_names)),
                    fails),
                fails),
            fails),
        fails)

\* the commands a run executes with raise_on_error; the run ends at the first
\* one that raises
FatalCommands ==
    (IF HaveThemeCdrom THEN {"theme_cdrom", "gfxboot"} ELSE {})
        \cup (IF HaveThemeMessage THEN {"theme_message"} ELSE {})
        \cup {"sync"}

\* the commands that fail in a run: the memtest copy or not, and at most one
\* of the others
Failures ==
    {m \cup f : m \in {{}, {"memtest"}}, f \in {{}} \cup {{c} : c \in FatalCommands}}

_copy_loader_data_to_boot_directory(op, fails) ==
    LET r == SyncStep(Staged(fails), fails)
    IN  /\ phase = "ready"
        /\ loader_data' = [exists |-> TRUE, files |-> r.files]
        /\ iso_boot' =
              IF "create_boot_path" \notin {r.steps[i] : i \in DOMAIN r.steps} THEN iso_boot
              ELSE IF r.raised # "no" THEN [iso_boot EXCEPT !.exists = TRUE]
              ELSE [exists |-> TRUE,
                    files |-> SyncData(SyncOptions, r.files, iso_boot.files)]
        /\ last' = [op |-> op,
                    raised |-> IF r.raised = "no" THEN "no" ELSE "KiwiCommandError",
                    failed_step |-> r.raised,
                    memtest_copied |-> "memtest" \in DOMAIN r.files,
                    steps |-> r.steps]
        /\ UNCHANGED <<machine, xml_state, defaults, isolinux, self, phase, lookup,
                       env_changes>>

setup_install_boot_images ==
    \E fails \in Failures :
        _copy_loader_data_to_boot_directory("_copy_loader_data_to_boot_directory", fails)

setup_live_boot_images ==
    \E fails \in Failures :
        _copy_loader_data_to_boot_directory("_copy_loader_data_to_boot_directory", fails)

---------------------------------------------------------------------------
(* The files below lookup_path and their changes between calls *)

\* how many of the required loader files the source directories may hold
NumLoaderFiles == 1

\* how often the files below lookup_path change between calls
MaxEnvChanges == 1

LoaderNames == {syslinux_file_names[i] : i \in 1..NumLoaderFiles}
SyslinuxDirs == {syslinux_dirs[i] : i \in DOMAIN syslinux_dirs}
Contents == {"v1", "v2"}

\* the files of a boot theme's cdrom directory
ThemeCdromNames == {"gfxboot.cfg", "bootlogo"}

EmptyLookup ==
    [syslinux      |-> [d \in SyslinuxDirs |-> NoFiles],
     memtest       |-> None,
     theme_cdrom   |-> NoFiles,
     theme_message |-> None]

\* a directory without the file name
Without(files, name) == [n \in DOMAIN files \ {name} |-> files[n]]

\* one file of the syslinux directories is created, rewritten or removed
LoaderFilesChange ==
    /\ env_changes < MaxEnvChanges
    /\ env_changes' = env_changes + 1
    /\ \E new \in
          {[lookup EXCEPT !.syslinux[d] = Overlay(n :> c, @)] :
               d \in SyslinuxDirs, n \in LoaderNames, c \in Contents}
          \cup {[lookup EXCEPT !.syslinux[d] = Without(@, n)] :
               d \in SyslinuxDirs, n \in LoaderNames} :
          /\ new # lookup
          /\ lookup' = new
    /\ UNCHANGED <<machine, xml_state, defaults, isolinux, self, phase, loader_data,
                   iso_boot, last>>

\* the memtest kernel or one file of the boot theme is created or removed
ThemeFilesChange ==
    /\ env_changes < MaxEnvChanges
    /\ env_changes' = env_changes + 1
    /\ \E new \in
          {[lookup EXCEPT !.memtest = m] : m \in {None, Some("memtest86")}}
          \cup {[lookup EXCEPT !.theme_cdrom = Overlay(n :> "theme " \o n, @)] :
               n \in ThemeCdromNames}
          \cup {[lookup EXCEPT !.theme_cdrom = Without(@, n)] : n \in ThemeCdromNames}
          \cup {[lookup EXCEPT !.theme_message = m] : m \in {None, Some("theme message")}} :
          /\ new # lookup
          /\ lookup' = new
    /\ UNCHANGED <<machine, xml_state, defaults, isolinux, self, phase, loader_data,
                   iso_boot, last>>

---------------------------------------------------------------------------
(* Initial states *)

\* template bodies of the provider
StdBody ==
    <<Lit("default "), Var("default_boot"), Lit(" timeout "), Var("boot_timeout"),
      Lit(" kernel "), Var("kernel_file"), Lit(" append initrd="), Var("initrd_file"),
      Lit(" "), Var("boot_options")>>
MultibootBody ==
    <<Lit("default "), Var("default_boot"), Lit(" timeout "), Var("boot_timeout"),
      Lit(" kernel mboot.c32 append "), Var("hypervisor"), Lit(" --- "),
      Var("kernel_file"), Lit(" "), Var("boot_options"), Lit(" --- "),
      Var("initrd_file")>>
MessageBody == <<Lit("Welcome to "), Var("title")>>
BadBody == <<Lit("menu "), Var("undefined_placeholder")>>
EmptyBody == <<>>

Provider(install, live, install_message, message) ==
    [get_install_template           |-> install,
     get_multiboot_install_template |-> IF install = StdBody THEN MultibootBody ELSE install,
     get_template                   |-> live,
     get_multiboot_template         |-> IF live = StdBody THEN MultibootBody ELSE live,
     get_install_message_template   |-> install_message,
     get_message_template           |-> message]

StandardProvider == Provider(StdBody, StdBody, MessageBody, MessageBody)

BaseXmlState ==
    [custom_args                 |-> None,
     volid                       |-> None,
     flags                       |-> None,
     initrd_system               |-> "dracut",
     xen_server                  |-> FALSE,
     hybridpersistent            |-> FALSE,
     hybridpersistent_filesystem |-> None,
     bootloader_console          |-> None,
     gfxmode                     |-> "800x600",
     boot_timeout_seconds        |-> 10,
     cmdline                     |-> "splash",
     failsafe_boot               |-> TRUE,
     mediacheck                  |-> FALSE,
     displayname                 |-> "Bob",
     installboot                 |-> "install",
     boot_theme                  |-> None]

Machines == {"x86_64", "i686", "i586", "aarch64"}

DefaultsSet ==
    {[volume_id |-> "CDROM", install_volume_id |-> "INSTALL"],
     [volume_id |-> "LIVE123", install_volume_id |-> "INSTALL1"]}

InitObject ==
    /\ self = [n \in {} |-> None]
    /\ phase = "new"
    /\ loader_data = NoDir
    /\ iso_boot = NoDir
    /\ env_changes = 0
    /\ last = [op |-> "none", raised |-> "no"]

\* build descriptions of every kind, the templates and the files fixed
Init ==
    /\ machine \in Machines
    /\ xml_state \in
          {[BaseXmlState EXCEPT !.volid = v, !.initrd_system = i, !.xen_server = x,
                                !.hybridpersistent = h,
                                !.hybridpersistent_filesystem = Some("ext4")] :
               v \in {None, Some("MYVOL")}, i \in {"dracut", "kiwi"},
               x \in BOOLEAN, h \in BOOLEAN}
    /\ defaults \in DefaultsSet
    /\ isolinux = StandardProvider
    /\ lookup = EmptyLookup
    /\ InitObject

Next ==
    \/ post_init
    \/ setup_install_image_config
    \/ setup_live_image_config
    \/ write

Spec == Init /\ [][Next]_vars

\* template providers of every kind, the build description fixed up to xen
InitTemplates ==
    /\ machine = "x86_64"
    /\ xml_state \in {[BaseXmlState EXCEPT !.xen_server = x] : x \in BOOLEAN}
    /\ defaults = [volume_id |-> "CDROM", install_volume_id |-> "INSTALL"]
    /\ isolinux \in
          {Provider(i, l, im, m) :
               i \in {StdBody, EmptyBody, BadBody}, l \in {StdBody, EmptyBody, BadBody},
               im \in {MessageBody, EmptyBody, BadBody},
               m \in {MessageBody, EmptyBody, BadBody}}
    /\ lookup = EmptyLookup
    /\ InitObject

SpecTemplates == InitTemplates /\ [][Next]_vars

\* the syslinux directories of every kind and changing, with and without theme
InitStage ==
    /\ machine = "x86_64"
    /\ xml_state \in {[BaseXmlState EXCEPT !.boot_theme = t] : t \in {None, Some("openSUSE")}}
    /\ defaults = [volume_id |-> "CDROM", install_volume_id |-> "INSTALL"]
    /\ isolinux = StandardProvider
    /\ lookup \in
          {[syslinux      |-> s,
            memtest       |-> Some("memtest86"),
            theme_cdrom   |-> [n \in ThemeCdromNames |-> "theme " \o n],
            theme_message |-> None] :
               s \in {[d \in SyslinuxDirs |-> NoFiles],
                      [d \in SyslinuxDirs |->
                          IF d = syslinux_dirs[1] THEN [n \in LoaderNames |-> "v1"]
                          ELSE NoFiles],
                      [d \in SyslinuxDirs |->
                          [n \in LoaderNames |->
                              IF d = syslinux_dirs[1] THEN "v1" ELSE "v2"]]}}
    /\ InitObject

NextStage ==
    \/ post_init
    \/ setup_install_boot_images
    \/ setup_live_boot_images
    \/ LoaderFilesChange

SpecStage == InitStage /\ [][NextStage]_vars

\* the memtest kernel and the theme files of every kind and changing
InitAbort ==
    /\ machine = "x86_64"
    /\ xml_state \in {[BaseXmlState EXCEPT !.boot_theme = t] : t \in {None, Some("openSUSE")}}
    /\ defaults = [volume_id |-> "CDROM", install_volume_id |-> "INSTALL"]
    /\ isolinux = StandardProvider
    /\ lookup \in
          {[syslinux      |-> [d \in SyslinuxDirs |-> [n \in LoaderNames |-> "v1"]],
            memtest       |-> m,
            theme_cdrom   |-> c,
            theme_message |-> t] :
               m \in {None, Some("memtest86")},
               c \in {NoFiles, [n \in ThemeCdromNames |-> "theme " \o n]},
               t \in {None, Some("theme message")}}
    /\ InitObject

NextAbort ==
    \/ post_init
    \/ setup_install_boot_images
    \/ setup_live_boot_images
    \/ ThemeFilesChange

SpecAbort == InitAbort /\ [][NextAbort]_vars

\* a boot theme below lookup_path, configured or not; the files do not change
InitTheme ==
    /\ machine \in Machines
    /\ xml_state \in {[BaseXmlState EXCEPT !.boot_theme = t] : t \in {None, Some("openSUSE")}}
    /\ defaults = [volume_id |-> "CDROM", install_volume_id |-> "INSTALL"]
    /\ isolinux = StandardProvider
    /\ lookup =
          [syslinux      |-> [d \in SyslinuxDirs |-> [n \in LoaderNames |-> "v1"]],
           memtest       |-> Some("memtest86"),
           theme_cdrom   |-> [n \in ThemeCdromNames |-> "theme " \o n],
           theme_message |-> Some("theme message")]
    /\ InitObject

NextTheme ==
    \/ post_init
    \/ setup_install_boot_images
    \/ setup_live_boot_images
    \/ setup_install_image_config
    \/ setup_live_image_config
    \/ write

SpecTheme == InitTheme /\ [][NextTheme]_vars

---------------------------------------------------------------------------
(* Properties *)

RenderOps == {"setup_install_image_config", "setup_live_image_config"}
StagingOp == "_copy_loader_data_to_boot_directory"

\* a step of a staging run, from either entry point
StagingRun == setup_install_boot_images \/ setup_live_boot_images

\* the names in a step trace
StepSet(steps) == {steps[i] : i \in DOMAIN steps}

\* C4: in a staging run, a required loader file found in both candidate
\* directories is staged with the content of the later directory, a file found
\* in one directory with that content, and a file found in neither is not
\* staged while the run goes on to the memtest copy.
C4_LastDirectoryWins ==
    [][StagingRun =>
        \A i \in DOMAIN syslinux_file_names :
            LET n == syslinux_file_names[i]
                first == lookup.syslinux[syslinux_dirs[1]]
                later == lookup.syslinux[syslinux_dirs[2]]
                staged == loader_data'.files
            IN  /\ n \in DOMAIN later => n \in DOMAIN staged /\ staged[n] = later[n]
                /\ n \in DOMAIN first /\ n \notin DOMAIN later =>
                       n \in DOMAIN staged /\ staged[n] = first[n]
                /\ n \notin DOMAIN first /\ n \notin DOMAIN later =>
                       n \notin DOMAIN staged /\ "memtest" \in StepSet(last'.steps)
    ]_vars

\* C4 witness: a run has staged a loader file that both directories hold with
\* differing content, and the staged copy is the later directory's.
C4_Witness ==
    /\ last.op = StagingOp
    /\ \E n \in LoaderNames :
          /\ n \in DOMAIN lookup.syslinux[syslinux_dirs[1]]
          /\ n \in DOMAIN lookup.syslinux[syslinux_dirs[2]]
          /\ lookup.syslinux[syslinux_dirs[1]][n] # lookup.syslinux[syslinux_dirs[2]][n]
          /\ n \in DOMAIN loader_data.files
          /\ loader_data.files[n] = lookup.syslinux[syslinux_dirs[2]][n]

\* the steps of a run in the order of the code
StepOrder ==
    <<"wipe", "copy_loader_files", "memtest", "theme_cdrom", "gfxboot",
      "theme_message", "create_boot_path", "sync">>

\* the steps before the sync whose failure ends the run
ThemeSteps == {"theme_cdrom", "gfxboot", "theme_message"}

\* s is t with some elements left out, the order kept
RECURSIVE IsSubsequence(_, _)
IsSubsequence(s, t) ==
    IF s = <<>> THEN TRUE
    ELSE IF t = <<>> THEN FALSE
    ELSE IF Head(s) = Head(t) THEN IsSubsequence(Tail(s), Tail(t))
    ELSE IsSubsequence(s, Tail(t))

\* C8: in a staging run the boot-loader path is created and synchronized if
\* and only if no theme step (cdrom copy, splash-config patch, message copy)
\* failed, whether or not the memtest copy succeeded; a failed theme step is
\* the last step of the run and leaves the boot-loader path as it was.
C8_SyncIffNoFatalFailure ==
    [][StagingRun =>
        LET steps == last'.steps
            done == StepSet(steps)
        IN  /\ IsSubsequence(steps, StepOrder)
            /\ "memtest" \in done
            /\ ("sync" \in done) <=> (last'.failed_step \notin ThemeSteps)
            /\ ("create_boot_path" \in done) <=> ("sync" \in done)
            /\ last'.failed_step \in ThemeSteps =>
                   /\ steps[Len(steps)] = last'.failed_step
                   /\ last'.raised = "KiwiCommandError"
                   /\ iso_boot' = iso_boot
            /\ last'.failed_step \in {"no"} =>
                   /\ last'.raised = "no"
                   /\ iso_boot'.exists
                   /\ \A n \in DOMAIN loader_data'.files :
                          n \in DOMAIN iso_boot'.files
                          /\ iso_boot'.files[n] = loader_data'.files[n]
            /\ last'.failed_step \in ThemeSteps \cup {"no", "sync"}
            /\ \A c \in ThemeSteps \cap done :
                   /\ Truthy(BootTheme)
                   /\ c \in {"theme_cdrom", "gfxboot"} => HaveThemeCdrom
                   /\ c = "theme_message" => HaveThemeMessage
    ]_vars

\* C8 witness: a run whose memtest copy failed went on through the theme steps
\* and synchronized the boot-loader path.
C8_Witness ==
    /\ last.op = StagingOp
    /\ ~last.memtest_copied
    /\ {"theme_cdrom", "gfxboot", "theme_message", "sync"} \subseteq StepSet(last.steps)
    /\ last.raised = "no"
    /\ "bootlogo" \in DOMAIN iso_boot.files

\* whether a file of the given name has a source a run copies from
HasSource(n) ==
    \/ \E i \in DOMAIN syslinux_file_names, d \in SyslinuxDirs :
          n = syslinux_file_names[i] /\ n \in DOMAIN lookup.syslinux[d]
    \/ n = "memtest" /\ lookup.memtest # None
    \/ HaveThemeCdrom /\ n \in DOMAIN lookup.theme_cdrom
    \/ HaveThemeMessage /\ n = "message"

\* C9: after every staging run, failed or not, the staging directory exists
\* and holds only files the run copied: every staged file has its source
\* below lookup_path at the time of the run.
C9_StagingRebuilt ==
    [][StagingRun =>
        /\ loader_data'.exists
        /\ \A n \in DOMAIN loader_data'.files : HasSource(n)
    ]_vars

\* C9 witness: after a change of the source files, a run left the staging
\* directory without a loader file that an earlier run had staged and
\* synchronized and that has no source any more.
C9_Witness ==
    /\ last.op = StagingOp
    /\ env_changes > 0
    /\ \E n \in LoaderNames :
          /\ n \in DOMAIN iso_boot.files
          /\ n \notin DOMAIN loader_data.files
          /\ ~HasSource(n)

C1_FailedRenderKeepsText ==
    (/\ last.op \in RenderOps
     /\ last.raised = "KiwiTemplateError"
     /\ last.before.config # None
     /\ last.before.config_message # None) =>
        /\ self.config = last.before.config
        /\ self.config_message = last.before.config_message

\* the file of the boot-loader path, None if there is none
FileIn(dir, name) ==
    IF dir.exists /\ name \in DOMAIN dir.files THEN Some(dir.files[name]) ELSE None

\* C2 as claimed: after write, each of isolinux.cfg and isolinux.msg holds the
\* held text if that text is not None, the empty text included, and is as it
\* was before the call if the held text is None.
C2_WrittenIffNotNone ==
    last.op = "write" =>
        /\ self.config # None => FileIn(iso_boot, "isolinux.cfg") = self.config
        /\ self.config = None =>
               FileIn(iso_boot, "isolinux.cfg") = FileIn(last.before, "isolinux.cfg")
        /\ self.config_message # None =>
               FileIn(iso_boot, "isolinux.msg") = self.config_message
        /\ self.config_message = None =>
               FileIn(iso_boot, "isolinux.msg") = FileIn(last.before, "isolinux.msg")

\* the volume id the build description configures for the install media
ConfiguredInstallVolumeId ==
    IF xml_state.volid # None /\ xml_state.volid # Some("")
    THEN xml_state.volid[1] ELSE defaults.install_volume_id

\* C5: install_boot_options is loglevel=0, followed by
\* root=install:CDLABEL=<install volume id> exactly if the initrd system is
\* dracut; with volume id LIVE123, install volume id INSTALL1, dracut and no
\* multiboot the install boot_options parameter is
\* "<cmdline> loglevel=0 root=install:CDLABEL=INSTALL1".
C5_InstallBootOptions ==
    phase = "ready" =>
        /\ self.install_volid = ConfiguredInstallVolumeId
        /\ xml_state.initrd_system = "dracut" =>
               self.install_boot_options =
                   <<"loglevel=0", "root=install:CDLABEL=" \o ConfiguredInstallVolumeId>>
        /\ xml_state.initrd_system # "dracut" =>
               self.install_boot_options = <<"loglevel=0">>
        /\ (/\ last.op = "setup_install_image_config"
            /\ self.volume_id = "LIVE123"
            /\ self.install_volid = "INSTALL1"
            /\ xml_state.initrd_system = "dracut"
            /\ ~self.multiboot) =>
               last.parameters.boot_options =
                   self.cmdline \o " loglevel=0 root=install:CDLABEL=INSTALL1"

\* C5 witness: an install render with volume id LIVE123, install volume id
\* INSTALL1, dracut and no multiboot.
C5_Witness ==
    /\ last.op = "setup_install_image_config"
    /\ self.volume_id = "LIVE123"
    /\ self.install_volid = "INSTALL1"
    /\ xml_state.initrd_system = "dracut"
    /\ ~self.multiboot
    /\ last.raised = "no"

SupportedMachines == {"x86_64", "i686", "i586"}

\* C6 as claimed: a host architecture other than x86_64, i686, i586 raises
\* the platform error before any field of the object is set.
C6_NoFieldSetOnPlatformError ==
    phase = "failed" => DOMAIN self = {}

\* C6 amended: x86_64 maps to x86_64, i686 and i586 map to ix86; every other
\* identifier raises the platform error with no field set but custom_args;
\* whenever a render, staging or write call has run, the object is
\* constructed and its architecture tag is x86_64 or ix86.
C6_ArchitectureResolved ==
    /\ phase = "failed" =>
           /\ machine \notin SupportedMachines
           /\ DOMAIN self = {"custom_args"}
           /\ last.op = "post_init"
           /\ last.raised = "KiwiBootLoaderIsoLinuxPlatformError"
    /\ phase = "ready" =>
           /\ machine \in SupportedMachines
           /\ machine = "x86_64" => self.arch = "x86_64"
           /\ machine \in {"i686", "i586"} => self.arch = "ix86"
    /\ last.op \in RenderOps \cup {StagingOp, "write"} =>
           /\ phase = "ready"
           /\ self.arch \in {"x86_64", "ix86"}

\* C6 witness: construction on an unsupported host has raised.
C6_Witness ==
    /\ phase = "failed"
    /\ machine = "aarch64"
    /\ last.raised = "KiwiBootLoaderIsoLinuxPlatformError"

ParameterNames ==
    {"default_boot", "kernel_file", "initrd_file", "boot_options",
     "failsafe_boot_options", "gfxmode", "boot_timeout", "title"}

\* C7: in both render entry points the parameter map holds the key hypervisor
\* exactly if the multiboot flag is set, and the multiboot flag is set exactly
\* if the build is a xen server.
C7_HypervisorIffMultiboot ==
    /\ phase = "ready" => (self.multiboot <=> xml_state.xen_server)
    /\ last.op \in RenderOps =>
           /\ ("hypervisor" \in DOMAIN last.parameters) <=> self.multiboot
           /\ DOMAIN last.parameters \ {"hypervisor"} = ParameterNames
           /\ self.multiboot <=>
                  last.template.getter \in
                      {"get_multiboot_install_template", "get_multiboot_template"}

\* C7 witness: a live render of a xen server build handed over the hypervisor.
C7_Witness ==
    /\ last.op = "setup_live_image_config"
    /\ xml_state.xen_server
    /\ "hypervisor" \in DOMAIN last.parameters
    /\ last.raised = "no"

\* C10: the theme flag of a render call is true exactly if bootlogo is in the
\* boot-loader path at the call, whether or not a boot theme is configured; a
\* render before any staging run has the flag false.
C10_ThemeFlagFollowsBootlogo ==
    last.op \in RenderOps =>
        /\ last.template.theme <=> ("bootlogo" \in DOMAIN iso_boot.files)
        /\ ~loader_data.exists => ~last.template.theme
        /\ last.template.theme => loader_data.exists /\ Truthy(BootTheme)

\* C10 witness: with a boot theme configured, a render after a staging run
\* that synchronized bootlogo has the theme flag set.
C10_Witness ==
    /\ last.op \in RenderOps
    /\ Truthy(BootTheme)
    /\ last.template.theme
    /\ "bootlogo" \in DOMAIN iso_boot.files
    /\ last.raised = "no"

====
